---------------------------- MODULE Spec2Model ----------------------------
(***************************************************************************)
(* Monitor Moon (src/monitor.py): the ServerMonitor polling engine.        *)
(*                                                                         *)
(* Time is counted in whole seconds since the process started (time.time() *)
(* and datetime.now() read the same clock, `now').  Byte counters, usage   *)
(* figures and percentages are integers; a percentage is kept in tenths    *)
(* (42.3% is 423).                                                         *)
(***************************************************************************)
EXTENDS Integers, Sequences, FiniteSets, TLC

VARIABLES
    config,         \* what is at CONFIG_FILE: valid, missing or malformed
    interval,       \* self.interval: config['monitoring']['interval_minutes']
    midnight,       \* when the first 00:00 of the system's local time falls
    tz_shift,       \* seconds Asia/Tehran is ahead of the system's local time
    now,            \* the wall clock, seconds since process start
    last_stats,     \* self.last_stats: dict server name -> {rx, tx, time}
    call,           \* TrackerSpec: the last get_bandwidth_usage call
    ret,            \* TrackerSpec: what it returned, <<rx_usage, tx_usage>>
    resp,           \* CollectSpec: how the remote host answers
    stats,          \* the dict the last get_server_stats returned
    open_sessions,  \* names of the servers with an SSH session left open
    bytes,          \* FormatSpec: the quantity handed to format_bytes
    formatted,      \* FormatSpec: what format_bytes made of it
    pc,             \* where the process is: main, init, immediate, run, jobs,
                    \* sleep, exited
    pending,        \* run_pending's due jobs still to run, in order
    cycle,          \* the task in progress: none, interval or daily
    idx,            \* index into config['servers'] of the next server to poll
    polled,         \* names of the servers polled so far in this cycle
    report,         \* the sections of the report being built, or last built
    totals,         \* <<total_rx, total_tx>> of generate_monitoring_report
    next_run,       \* next_run of the two scheduled jobs, by job name
    delivery,       \* outcome of sending this cycle's report
    online_polls    \* per task, the servers a poll of that task found online

envVars == <<config, interval, midnight, tz_shift>>
trackerVars == <<last_stats, call, ret>>
collectVars == <<resp, stats, open_sessions>>
formatVars == <<bytes, formatted>>
schedVars == <<pc, pending, cycle, idx, polled, report, totals, next_run,
               delivery, online_polls>>

vars == <<envVars, now, trackerVars, collectVars, formatVars, schedVars>>

---------------------------------------------------------------------------
(* Bounds of the model *)

MaxInterval == 2        \* interval_minutes ranges over 1..MaxInterval
MaxCounter == 1         \* cumulative byte counters: 0..MaxCounter counter units
CounterUnit == 7        \* bytes in one counter unit
MaxTime == 120          \* the clock stops advancing here

(* program constants *)
DayLen == 86400         \* seconds in a day (every().day, line 286)
TehranOffset == 12600   \* Asia/Tehran (line 44) is UTC+03:30
ConnectTimeout == 10    \* timeout=10 of ssh.connect (line 66)

(* config['servers'], in configuration order; names are the tracker's keys *)
servers == <<[name |-> "alpha"], [name |-> "beta"]>>

Names == {servers[i].name : i \in 1..Len(servers)}

Counters == {c * CounterUnit : c \in 0..MaxCounter}

Intervals == 1..MaxInterval

---------------------------------------------------------------------------
(* get_bandwidth_usage, monitor.py:73-110 *)

(* int(x) of a Python float x = a / b, b > 0: truncation toward zero *)
IntTrunc(a, b) == IF a >= 0 THEN a \div b ELSE -((-a) \div b)

(* line 90: the minimum elapsed time, in seconds, for a delta to be computed *)
MinElapsed == 60

StoreSample_KeepsFirst(ls, server_key, current_rx, current_tx, t) ==
    IF server_key \in DOMAIN ls THEN ls
    ELSE [k \in DOMAIN ls \cup {server_key} |->
             IF k = server_key
             THEN [rx |-> current_rx, tx |-> current_tx, time |-> t]
             ELSE ls[k]]

StoreSample_KeepsTime(ls, server_key, current_rx, current_tx, t) ==
    [k \in DOMAIN ls \cup {server_key} |->
        IF k = server_key
        THEN [rx |-> current_rx, tx |-> current_tx,
              time |-> IF k \in DOMAIN ls THEN ls[k].time ELSE t]
        ELSE ls[k]]

StoreSample_OnlyThisKey(ls, server_key, current_rx, current_tx, t) ==
    [k \in {server_key} |->
        [rx |-> current_rx, tx |-> current_tx, time |-> t]]

(* lines 79-83 and 102-106: self.last_stats[server_key] = {rx, tx, time} *)
StoreSample(ls, server_key, current_rx, current_tx, t) ==
    [k \in DOMAIN ls \cup {server_key} |->
        IF k = server_key
        THEN [rx |-> current_rx, tx |-> current_tx, time |-> t]
        ELSE ls[k]]

FirstObservation_NotStored(ls, server_key, current_rx, current_tx, t) ==
    [usage |-> <<0, 0>>, last_stats |-> ls]

FirstObservation_ReturnsCounters(ls, server_key, current_rx, current_tx, t) ==
    [usage |-> <<current_rx, current_tx>>,
     last_stats |-> StoreSample(ls, server_key, current_rx, current_tx, t)]

(* lines 77-84: no sample yet: store one, return 0, 0 *)
FirstObservation(ls, server_key, current_rx, current_tx, t) ==
    [usage |-> <<0, 0>>,
     last_stats |-> StoreSample(ls, server_key, current_rx, current_tx, t)]

TooSoon_Minutes(time_diff) == time_diff < MinElapsed \div 60

(* line 90: if time_diff < 60 *)
TooSoon(time_diff) == time_diff < MinElapsed

Extrapolate_PerMinute(diff, time_diff, ivl) ==
    IF time_diff > 0 THEN IntTrunc(diff * ivl, time_diff) ELSE 0

(* lines 94-99: int(per_sec * self.interval * 60), per_sec = diff / time_diff *)
(* if time_diff > 0 else 0                                                  *)
Extrapolate(diff, time_diff, ivl) ==
    IF time_diff > 0 THEN IntTrunc(diff * ivl * 60, time_diff) ELSE 0

(* The whole method: the value returned and the dict afterwards.  ls is     *)
(* self.last_stats, ivl self.interval, t the reading of time.time().        *)
get_bandwidth_usage(ls, ivl, server_key, current_rx, current_tx, t) ==
    IF server_key \notin DOMAIN ls
    THEN FirstObservation(ls, server_key, current_rx, current_tx, t)
    ELSE LET last == ls[server_key]
             time_diff == t - last.time
         IN  IF TooSoon(time_diff)
             THEN [usage |-> <<0, 0>>, last_stats |-> ls]
             ELSE [usage |-> <<Extrapolate(current_rx - last.rx, time_diff, ivl),
                               Extrapolate(current_tx - last.tx, time_diff, ivl)>>,
                   last_stats |-> StoreSample(ls, server_key, current_rx,
                                              current_tx, t)]

(* No call of get_bandwidth_usage yet *)
NoSample == [rx |-> 0, tx |-> 0, time |-> 0]

NoCall == [made |-> FALSE, host |-> "", rx |-> 0, tx |-> 0, at |-> 0,
           had |-> FALSE, last |-> NoSample]

---------------------------------------------------------------------------
(* get_server_stats, monitor.py:112-173 *)

(* A token of a command's output after .strip().split(): a decimal number   *)
(* (val: hundredths for a percentage, bytes for a counter) or other text.   *)
Num(v) == [num |-> TRUE, val |-> v]
Junk == [num |-> FALSE, val |-> 0]

(* line 130 *)
interfaces == <<"eth0", "ens18", "ens3", "eno1", "enp1s0">>

(* str(e) of the ValueError float() and int() raise on non-numeric text *)
FloatError == "could not convert string to float"
IntError == "invalid literal for int() with base 10"

(* The remote commands in the order the method issues them: 1 CPU, 2 RAM,   *)
(* 3 disk, 3 + i the i-th named interface, FirstCmd the fallback.           *)
FirstCmd == Len(interfaces) + 4

(* float(text or 0): the text is one number; empty text counts as 0 *)
FloatParses(text) == Len(text) = 0 \/ (Len(text) = 1 /\ text[1].num)
FloatOf(text) == IF Len(text) = 0 THEN 0 ELSE text[1].val

(* round(x, 1): hundredths to tenths (no model value lies on a tie) *)
Round1(x) == (x + 5) \div 10

Raise(msg, opened) ==
    [raised |-> TRUE, msg |-> msg, opened |-> opened,
     cpu |-> 0, ram |-> 0, disk |-> 0, rx |-> 0, tx |-> 0]

(* lines 134-141: the loop over the named interfaces, from the i-th on *)
RECURSIVE ScanInterfaces(_, _)
ScanInterfaces(r, i) ==
    IF i > Len(interfaces)
    THEN [raised |-> FALSE, msg |-> "", rx |-> 0, tx |-> 0]
    ELSE IF r.fail_at = 3 + i
    THEN [raised |-> TRUE, msg |-> r.fail_msg, rx |-> 0, tx |-> 0]
    ELSE LET net_data == r.net[i]
         IN  IF Len(net_data) >= 2
             THEN IF net_data[1].num /\ net_data[2].num
                  THEN [raised |-> FALSE, msg |-> "",
                        rx |-> net_data[1].val, tx |-> net_data[2].val]
                  ELSE [raised |-> TRUE, msg |-> IntError, rx |-> 0, tx |-> 0]
             ELSE ScanInterfaces(r, i + 1)

(* lines 143-150: the first interface after the two header lines, tried     *)
(* when both counters are still 0                                          *)
FirstAvailable(r, named) ==
    IF named.raised \/ ~(named.rx = 0 /\ named.tx = 0)
    THEN named
    ELSE IF r.fail_at = FirstCmd
    THEN [raised |-> TRUE, msg |-> r.fail_msg, rx |-> 0, tx |-> 0]
    ELSE LET net_data == r.first
         IN  IF Len(net_data) >= 3
             THEN IF net_data[2].num /\ net_data[3].num
                  THEN [raised |-> FALSE, msg |-> "",
                        rx |-> net_data[2].val, tx |-> net_data[3].val]
                  ELSE [raised |-> TRUE, msg |-> IntError, rx |-> 0, tx |-> 0]
             ELSE named

(* lines 115-152: the try block, up to the first exception *)
TryBlock(r) ==
    IF r.connect_raises THEN Raise(r.connect_msg, FALSE)
    ELSE IF r.fail_at = 1 THEN Raise(r.fail_msg, TRUE)
    ELSE IF ~FloatParses(r.cpu) THEN Raise(FloatError, TRUE)
    ELSE IF r.fail_at = 2 THEN Raise(r.fail_msg, TRUE)
    ELSE IF ~FloatParses(r.ram) THEN Raise(FloatError, TRUE)
    ELSE IF r.fail_at = 3 THEN Raise(r.fail_msg, TRUE)
    ELSE IF ~FloatParses(r.disk) THEN Raise(FloatError, TRUE)
    ELSE LET net == FirstAvailable(r, ScanInterfaces(r, 1))
         IN  IF net.raised THEN Raise(net.msg, TRUE)
             ELSE [raised |-> FALSE, msg |-> "", opened |-> TRUE,
                   cpu |-> FloatOf(r.cpu), ram |-> FloatOf(r.ram),
                   disk |-> FloatOf(r.disk), rx |-> net.rx, tx |-> net.tx]

(* lines 154-161 *)
OnlineStats(t) ==
    [cpu |-> Round1(t.cpu), ram |-> Round1(t.ram), disk |-> Round1(t.disk),
     network_rx |-> t.rx, network_tx |-> t.tx, status |-> "online"]

(* lines 163-173: except Exception as e *)
OfflineStats(msg) ==
    [cpu |-> 0, ram |-> 0, disk |-> 0, network_rx |-> 0, network_tx |-> 0,
     status |-> "offline", error |-> msg]

NoStats == [status |-> "none"]

(* as if line 163 caught only the transport's exceptions *)
get_server_stats_TransportOnly(server, r) ==
    LET t == TryBlock(r)
    IN  IF t.raised
        THEN [raised |-> t.msg \in {FloatError, IntError},
              stats |-> OfflineStats(t.msg), leaked |-> t.opened]
        ELSE [raised |-> FALSE, stats |-> OnlineStats(t), leaked |-> FALSE]

(* The whole method: whether an exception leaves it (raised), the dict it   *)
(* returns otherwise, and whether it left the session it opened unclosed    *)
(* (ssh.close() is line 152, inside the try block).  `except Exception'     *)
(* (line 163) catches whatever the try block raises.                        *)
get_server_stats(server, r) ==
    LET t == TryBlock(r)
    IN  IF t.raised
        THEN [raised |-> FALSE, stats |-> OfflineStats(t.msg),
              leaked |-> t.opened]
        ELSE [raised |-> FALSE, stats |-> OnlineStats(t), leaked |-> FALSE]

---------------------------------------------------------------------------
(* What a remote host can answer *)

NoText == <<>>

(* str(e) of what paramiko raises: socket.timeout, AuthenticationException, *)
(* and the EOFError() of a connection the peer closed, which has no text    *)
TransportErrors == {"timed out", "Authentication failed.", ""}

(* percentages as the commands print them, in hundredths *)
PercentTexts == {NoText, <<Num(4230)>>, <<Num(504)>>, <<Junk>>}

(* the two counters of a /proc/net/dev line *)
CounterTexts == {NoText, <<Num(0), Num(0)>>, <<Num(CounterUnit), Num(0)>>,
                 <<Junk, Num(0)>>}

(* interface name and counters of the first /proc/net/dev line *)
FirstTexts == {NoText, <<Junk, Num(0), Num(CounterUnit)>>,
               <<Junk, Junk, Num(0)>>}

NoNamed == [i \in 1..Len(interfaces) |-> NoText]

Answer(craises, cmsg, fail_at, fail_msg, cpu, ram, disk, net, first) ==
    [connect_raises |-> craises, connect_msg |-> cmsg,
     fail_at |-> fail_at, fail_msg |-> fail_msg,
     cpu |-> cpu, ram |-> ram, disk |-> disk, net |-> net, first |-> first]

(* a host that answers every command: eth0 carries the counters *)
Healthy(cpu, ram, disk, rx, tx) ==
    Answer(FALSE, "", 0, "", cpu, ram, disk,
           [NoNamed EXCEPT ![1] = <<Num(rx), Num(tx)>>], NoText)

(* the connection fails *)
Unreachable(msg) ==
    Answer(TRUE, msg, 0, "", NoText, NoText, NoText, NoNamed, NoText)

(* every connection outcome, failing command and percentage output, over a  *)
(* fixed interface table                                                    *)
MetricAnswers ==
    {Unreachable(m) : m \in TransportErrors}
    \cup {Answer(FALSE, "", f, m, c, r, d,
                 [NoNamed EXCEPT ![1] = <<Num(CounterUnit), Num(CounterUnit)>>],
                 NoText) :
            f \in 0..FirstCmd, m \in {"timed out"},
            c \in PercentTexts, r \in PercentTexts, d \in PercentTexts}

(* every interface table over two of the named interfaces and the fallback  *)
NetworkAnswers ==
    {Answer(FALSE, "", 0, "", <<Num(4230)>>, <<Num(504)>>, NoText,
            [NoNamed EXCEPT ![1] = a, ![3] = b, ![5] = c], first) :
        a \in CounterTexts, b \in CounterTexts, c \in CounterTexts,
        first \in FirstTexts}

Answers == MetricAnswers \cup NetworkAnswers

---------------------------------------------------------------------------
(* The schedule library as start_scheduler uses it, monitor.py:280-296 *)

Jobs == {"interval", "daily"}

(* the first 00:00 of the system's local time after t; m is one such 00:00 *)
NextMidnight(m, t) ==
    IF t < m THEN m ELSE m + ((t - m) \div DayLen + 1) * DayLen

(* Job._schedule_next_run at time t: every(interval).minutes, and           *)
(* every().day.at("00:00"), which reads the system's local time             *)
ScheduleNext(job, t) ==
    IF job = "interval" THEN t + interval * 60 ELSE NextMidnight(midnight, t)

(* run_pending: the jobs with next_run <= now, sorted by next_run *)
DueJobs ==
    LET due == {j \in Jobs : next_run[j] <= now}
    IN  IF due = {} THEN <<>>
        ELSE IF due = Jobs
        THEN IF next_run["daily"] < next_run["interval"]
             THEN <<"daily", "interval">> ELSE <<"interval", "daily">>
        ELSE <<CHOOSE j \in due : TRUE>>

(* the time of day in Asia/Tehran (get_tehran_time, lines 49-54) at time t, *)
(* in seconds after 00:00                                                   *)
TehranTimeOfDay(t) == (t - midnight + tz_shift) % DayLen

---------------------------------------------------------------------------
(* format_bytes, monitor.py:175-181.  A quantity is m * 1024^e bytes, kept   *)
(* as the pair (m, e), so that the division by 1024.0, which is exact in    *)
(* binary floating point, is a step of e and petabytes stay within reach.   *)

MaxExponent == 4        \* quantities range up to MaxMantissa * 1024^MaxExponent

Mantissas == {0, 1, 1023, 1024, 1025, 1536, 1048575,
              -1, -1023, -1024, -1536, -1048575}

Quantity(m, e) == [m |-> m, e |-> e]

Quantities == {Quantity(m, e) : m \in Mantissas, e \in 0..MaxExponent}

units == <<"B", "KB", "MB", "GB", "TB">>

Below1024_Always(q) == TRUE

(* line 178: bytes < 1024.0, the comparison of the signed value.  For m > 0 *)
(* and e <= 0 it is m < 1024^(1-e), which every mantissa below 1024^3       *)
(* satisfies once 1 - e >= 3.                                               *)
Below1024(q) ==
    \/ q.m <= 0
    \/ /\ q.e <= 0
       /\ \/ 1 - q.e >= 3
          \/ q.m < (IF q.e = 0 THEN 1024 ELSE 1024 * 1024)

(* line 180: bytes /= 1024.0 *)
Divided(q) == Quantity(q.m, q.e - 1)

(* lines 177-181: the loop over the units, from the i-th on; the text is    *)
(* the value to one decimal place, followed by the unit                     *)
RECURSIVE FormatFrom(_, _)
FormatFrom(q, i) ==
    IF i > Len(units) THEN [value |-> q, unit |-> "PB"]
    ELSE IF Below1024(q) THEN [value |-> q, unit |-> units[i]]
    ELSE FormatFrom(Divided(q), i + 1)

format_bytes(q) == FormatFrom(q, 1)

NoFormat == [unit |-> "none"]

---------------------------------------------------------------------------
(* main and load_config, monitor.py:298-326 *)

ConfigFiles == {"valid", "missing", "malformed"}

load_config_ReturnsAnyway(file) == [raises |-> FALSE, exception |-> "none"]

(* lines 298-305: open or json.load raises when the file is missing or is   *)
(* not JSON; the handler logs and calls sys.exit(1).  monitor.py does not   *)
(* import sys, so the call raises NameError in place of SystemExit.         *)
load_config(file) ==
    IF file = "valid" THEN [raises |-> FALSE, exception |-> "none"]
    ELSE [raises |-> TRUE, exception |-> "NameError"]

---------------------------------------------------------------------------
(* Initial states *)

NoDelivery == "none"

(* no job has been scheduled or run *)
Idle ==
    /\ pending = <<>>
    /\ cycle = "none"
    /\ idx = 1
    /\ polled = <<>>
    /\ report = <<>>
    /\ totals = <<0, 0>>
    /\ next_run = [j \in Jobs |-> 0]
    /\ delivery = NoDelivery
    /\ online_polls = [j \in Jobs |-> {}]

(* nothing has been handed to format_bytes *)
Unformatted ==
    /\ bytes = Quantity(0, 0)
    /\ formatted = NoFormat

(* after ServerMonitor.__init__ (lines 39-47) *)
Constructed ==
    /\ config = "valid"
    /\ pc = "init"
    /\ interval \in Intervals
    /\ now = 0
    /\ last_stats = <<>>
    /\ call = NoCall
    /\ ret = <<0, 0>>
    /\ stats = NoStats
    /\ open_sessions = {}
    /\ Idle

(* The sessions open once get_server_stats has returned.  ssh.close() (line *)
(* 152) is the last statement of the try block and the handler of lines     *)
(* 163-173 has none: a session that an exception left unclosed stays open   *)
(* until the garbage collector reclaims the client, which may or may not    *)
(* already have happened.                                                   *)
SessionsAfter(open, server, leaked) ==
    IF leaked THEN {open, open \cup {server.name}} ELSE {open}

---------------------------------------------------------------------------
(* get_server_stats on its own: one call per answer *)

CollectInit ==
    /\ Constructed
    /\ Unformatted
    /\ midnight = DayLen
    /\ tz_shift = 0
    /\ resp \in Answers

Collect(server) ==
    LET g == get_server_stats(server, resp)
    IN  /\ stats = NoStats
        /\ stats' = g.stats
        /\ open_sessions' \in SessionsAfter(open_sessions, server, g.leaked)
        /\ UNCHANGED <<envVars, formatVars, now, trackerVars, resp, schedVars>>

CollectNext == \E i \in 1..Len(servers) : Collect(servers[i])

CollectSpec == CollectInit /\ [][CollectNext]_vars

---------------------------------------------------------------------------
(* The tracker on its own: any sequence of calls, at any times *)

TimeSteps == {59, 60, 90}

TrackerInit ==
    /\ Constructed
    /\ Unformatted
    /\ midnight = DayLen
    /\ tz_shift = 0
    /\ resp = Unreachable("")

TrackerCall(h, rx, tx) ==
    LET r == get_bandwidth_usage(last_stats, interval, h, rx, tx, now)
    IN  /\ last_stats' = r.last_stats
        /\ ret' = r.usage
        /\ call' = [made |-> TRUE, host |-> h, rx |-> rx, tx |-> tx, at |-> now,
                    had |-> h \in DOMAIN last_stats,
                    last |-> IF h \in DOMAIN last_stats THEN last_stats[h]
                             ELSE NoSample]
        /\ UNCHANGED <<envVars, formatVars, now, collectVars, schedVars>>

TrackerAdvance(d) ==
    /\ now + d <= MaxTime
    /\ now' = now + d
    /\ UNCHANGED <<envVars, formatVars, trackerVars, collectVars, schedVars>>

TrackerNext ==
    \/ \E h \in Names, rx \in Counters, tx \in Counters : TrackerCall(h, rx, tx)
    \/ \E d \in TimeSteps : TrackerAdvance(d)

TrackerSpec == TrackerInit /\ [][TrackerNext]_vars

---------------------------------------------------------------------------
(* format_bytes on its own: one call per quantity *)

FormatInit ==
    /\ Constructed
    /\ midnight = DayLen
    /\ tz_shift = 0
    /\ resp = Unreachable("")
    /\ bytes \in Quantities
    /\ formatted = NoFormat

Format ==
    /\ formatted = NoFormat
    /\ formatted' = format_bytes(bytes)
    /\ UNCHANGED <<envVars, bytes, now, trackerVars, collectVars, schedVars>>

FormatSpec == FormatInit /\ [][Format]_vars

---------------------------------------------------------------------------
(* The monitor: start_scheduler and the two tasks, monitor.py:198-296 *)

(* how long one get_server_stats takes, in seconds *)
PollSeconds == {0, ConnectTimeout}

(* what the hosts answer while the monitor runs *)
CycleAnswers ==
    {Unreachable("timed out")}
    \cup {Healthy(<<Num(4230)>>, <<Num(504)>>, <<Num(7000)>>, c, c) :
            c \in Counters}
    \cup {Healthy(<<Junk>>, <<Num(504)>>, <<Num(7000)>>, CounterUnit, 0)}

(* what asyncio.run(send_async()) does: returns, raises a TelegramError, or *)
(* raises any other exception                                               *)
DeliveryOutcomes == {"sent", "TelegramError", "Exception"}

(* send_telegram_message, lines 183-196: only TelegramError is caught; TRUE *)
(* when the exception leaves the method                                     *)
send_telegram_message(outcome) == outcome = "Exception"

Max(a, b) == IF a >= b THEN a ELSE b
Min(a, b) == IF a <= b THEN a ELSE b

(* lines 217-231: one server's section of the interval report *)
IntervalSection(server, st, usage) ==
    IF st.status = "online"
    THEN [name |-> server.name, status |-> "online",
          input |-> usage[1], output |-> usage[2],
          total |-> usage[1] + usage[2],
          cpu |-> st.cpu, ram |-> st.ram, disk |-> st.disk]
    ELSE [name |-> server.name, status |-> "offline",
          error |-> IF "error" \in DOMAIN st THEN st.error
                    ELSE "Connection failed"]

DailySection_NoFloor(server, st) ==
    [name |-> server.name,
     avg_input |-> st.network_rx, avg_output |-> st.network_tx,
     avg_total |-> st.network_rx + st.network_tx,
     cpu_min |-> st.cpu - 100, cpu_max |-> st.cpu + 100,
     ram_min |-> st.ram - 150, ram_max |-> st.ram + 150,
     disk_min |-> st.disk - 50, disk_max |-> st.disk + 50]

(* lines 259-266: one server's section of the daily report (tenths of %) *)
DailySection(server, st) ==
    [name |-> server.name,
     avg_input |-> st.network_rx, avg_output |-> st.network_tx,
     avg_total |-> st.network_rx + st.network_tx,
     cpu_min |-> Max(0, st.cpu - 100), cpu_max |-> st.cpu + 100,
     ram_min |-> Max(0, st.ram - 150), ram_max |-> st.ram + 150,
     disk_min |-> Max(0, st.disk - 50), disk_max |-> st.disk + 50]

AddToTotals_InputOnly(tot, usage) == <<tot[1] + usage[1], tot[2]>>

(* lines 226-227: total_rx += rx_usage; total_tx += tx_usage *)
AddToTotals(tot, usage) == <<tot[1] + usage[1], tot[2] + usage[2]>>

(* lines 240-243: the totals section that closes the interval report *)
TotalsSection(tot) ==
    [input |-> tot[1], output |-> tot[2], total |-> tot[1] + tot[2]]

(* lines 200-208 and 249-253: a task starts *)
BeginCycle(job) ==
    /\ cycle' = job
    /\ idx' = 1
    /\ polled' = <<>>
    /\ report' = <<>>
    /\ totals' = <<0, 0>>
    /\ delivery' = NoDelivery

(* The job function has returned.  The immediate run_monitoring of line 291 *)
(* is followed by the loop; a job run by run_pending is rescheduled         *)
(* (Job.run) and run_pending goes on to its next due job.                   *)
JobReturns(job, t) ==
    IF pc = "immediate"
    THEN /\ pc' = "run"
         /\ UNCHANGED <<pending, next_run>>
    ELSE /\ next_run' = [next_run EXCEPT ![job] = ScheduleNext(job, t)]
         /\ pending' = Tail(pending)
         /\ pc' = IF Tail(pending) = <<>> THEN "sleep" ELSE "jobs"

(* An exception leaves start_scheduler: main logs it (lines 325-326) and    *)
(* the process ends.                                                        *)
ProcessEnds ==
    /\ pc' = "exited"
    /\ cycle' = "none"
    /\ UNCHANGED <<pending, next_run>>

(* lines 283-291: both jobs are scheduled, then run_monitoring is called *)
StartScheduler ==
    /\ pc = "init"
    /\ pc' = "immediate"
    /\ next_run' = [j \in Jobs |-> ScheduleNext(j, now)]
    /\ BeginCycle("interval")
    /\ UNCHANGED <<envVars, formatVars, now, trackerVars, collectVars, pending,
                   online_polls>>

(* lines 210-233: one iteration of generate_monitoring_report's loop.  An   *)
(* exception here would leave generate_monitoring_report and be logged by   *)
(* run_monitoring (lines 277-278), ending the cycle with no report.         *)
PollInterval(a, d) ==
    /\ cycle = "interval" /\ idx <= Len(servers)
    /\ now + d <= MaxTime
    /\ LET server == servers[idx]
           g == get_server_stats(server, a)
           t == now + d
           online == ~g.raised /\ g.stats.status = "online"
           bw == get_bandwidth_usage(last_stats, interval, server.name,
                                     g.stats.network_rx, g.stats.network_tx, t)
       IN  /\ now' = t
           /\ open_sessions' \in SessionsAfter(open_sessions, server, g.leaked)
           /\ polled' = Append(polled, server.name)
           /\ stats' = g.stats
           /\ IF g.raised
              THEN /\ cycle' = "none"
                   /\ JobReturns("interval", t)
                   /\ UNCHANGED <<last_stats, idx, report, totals, online_polls>>
              ELSE /\ idx' = idx + 1
                   /\ IF online
                      THEN /\ last_stats' = bw.last_stats
                           /\ totals' = AddToTotals(totals, bw.usage)
                           /\ report' = Append(report,
                                  IntervalSection(server, g.stats, bw.usage))
                           /\ online_polls' = [online_polls EXCEPT
                                  !["interval"] = @ \cup {server.name}]
                      ELSE /\ report' = Append(report,
                                  IntervalSection(server, g.stats, <<0, 0>>))
                           /\ UNCHANGED <<last_stats, totals, online_polls>>
                   /\ UNCHANGED <<pc, pending, cycle, next_run>>
    /\ UNCHANGED <<envVars, formatVars, call, ret, resp, delivery>>

(* lines 235-245 and 275-278: the report is complete and is sent; whatever  *)
(* send_telegram_message lets through, run_monitoring catches               *)
FinishInterval(outcome) ==
    /\ cycle = "interval" /\ idx > Len(servers)
    /\ delivery' = outcome
    /\ cycle' = "none"
    /\ JobReturns("interval", now)
    /\ UNCHANGED <<envVars, formatVars, now, trackerVars, collectVars, idx, polled, report,
                   totals, online_polls>>

(* lines 256-266: one iteration of send_daily_report's loop *)
PollDaily(a, d) ==
    /\ cycle = "daily" /\ idx <= Len(servers)
    /\ now + d <= MaxTime
    /\ LET server == servers[idx]
           g == get_server_stats(server, a)
       IN  /\ now' = now + d
           /\ open_sessions' \in SessionsAfter(open_sessions, server, g.leaked)
           /\ polled' = Append(polled, server.name)
           /\ stats' = g.stats
           /\ IF g.raised
              THEN /\ ProcessEnds
                   /\ UNCHANGED <<idx, report, online_polls>>
              ELSE /\ idx' = idx + 1
                   /\ report' = Append(report, DailySection(server, g.stats))
                   /\ online_polls' =
                         IF g.stats.status = "online"
                         THEN [online_polls EXCEPT !["daily"] = @ \cup {server.name}]
                         ELSE online_polls
                   /\ UNCHANGED <<pc, pending, cycle, next_run>>
    /\ UNCHANGED <<envVars, formatVars, trackerVars, resp, totals, delivery>>

(* line 268: the daily report is sent; nothing around send_daily_report     *)
(* catches what send_telegram_message lets through                          *)
FinishDaily(outcome) ==
    /\ cycle = "daily" /\ idx > Len(servers)
    /\ delivery' = outcome
    /\ IF send_telegram_message(outcome)
       THEN ProcessEnds
       ELSE /\ cycle' = "none"
            /\ JobReturns("daily", now)
    /\ UNCHANGED <<envVars, formatVars, now, trackerVars, collectVars, idx, polled, report,
                   totals, online_polls>>

(* line 295: schedule.run_pending() collects the due jobs *)
RunPending ==
    /\ pc = "run"
    /\ pending' = DueJobs
    /\ pc' = IF DueJobs = <<>> THEN "sleep" ELSE "jobs"
    /\ UNCHANGED <<envVars, formatVars, now, trackerVars, collectVars, cycle, idx, polled,
                   report, totals, next_run, delivery, online_polls>>

StartJob_InThread ==
    /\ pc = "jobs" /\ pending # <<>>
    /\ BeginCycle(Head(pending))
    /\ pending' = Tail(pending)
    /\ pc' = IF Tail(pending) = <<>> THEN "sleep" ELSE "jobs"
    /\ UNCHANGED <<envVars, formatVars, now, trackerVars, collectVars,
                   next_run, online_polls>>

(* run_pending runs its next due job: Job.run calls the job function and    *)
(* returns when it has returned                                             *)
StartJob ==
    /\ pc = "jobs" /\ cycle = "none" /\ pending # <<>>
    /\ BeginCycle(Head(pending))
    /\ UNCHANGED <<envVars, formatVars, now, trackerVars, collectVars, pc, pending,
                   next_run, online_polls>>

(* line 296: time.sleep(1); the iterations of the loop that find nothing    *)
(* due are taken in one step, up to the first that finds a job due          *)
Sleep ==
    /\ pc = "sleep"
    /\ LET wake == Max(now + 1, Min(next_run["interval"], next_run["daily"]))
       IN  /\ wake <= MaxTime
           /\ now' = wake
    /\ pc' = "run"
    /\ UNCHANGED <<envVars, formatVars, trackerVars, collectVars, pending, cycle, idx,
                   polled, report, totals, next_run, delivery, online_polls>>

MidnightSoon == 30      \* a start of the process this long before 00:00

Init ==
    /\ Constructed
    /\ Unformatted
    /\ midnight \in {MidnightSoon, DayLen}
    /\ tz_shift \in {0, TehranOffset}
    /\ resp = Unreachable("")

Next ==
    \/ StartScheduler
    \/ \E a \in CycleAnswers, d \in PollSeconds : PollInterval(a, d)
    \/ \E o \in DeliveryOutcomes : FinishInterval(o)
    \/ \E a \in CycleAnswers, d \in PollSeconds : PollDaily(a, d)
    \/ \E o \in DeliveryOutcomes : FinishDaily(o)
    \/ RunPending
    \/ StartJob
    \/ Sleep

Spec == Init /\ [][Next]_vars

(* the process keeps running and its remote calls return *)
FairSpec == Spec /\ WF_vars(Next)

---------------------------------------------------------------------------
(* The process from its start: main, monitor.py:307-326 *)

(* before main has called load_config; the rest of the state is what        *)
(* ServerMonitor.__init__ will find                                         *)
MainInit ==
    /\ config \in ConfigFiles
    /\ pc = "main"
    /\ Unformatted
    /\ interval \in Intervals
    /\ now = 0
    /\ last_stats = <<>>
    /\ call = NoCall
    /\ ret = <<0, 0>>
    /\ stats = NoStats
    /\ open_sessions = {}
    /\ Idle
    /\ midnight \in {MidnightSoon, DayLen}
    /\ tz_shift \in {0, TehranOffset}
    /\ resp = Unreachable("")

(* lines 313-318 and 323-326: load_config returns and the monitor is        *)
(* created, or what it raises reaches main: `except Exception' logs a       *)
(* NameError and main returns (a SystemExit would pass both handlers and    *)
(* end the process as well)                                                 *)
Main ==
    /\ pc = "main"
    /\ pc' = IF load_config(config).raises THEN "exited" ELSE "init"
    /\ UNCHANGED <<envVars, formatVars, now, trackerVars, collectVars,
                   pending, cycle, idx, polled, report, totals, next_run,
                   delivery, online_polls>>

MainNext == Main \/ Next

MainSpec == MainInit /\ [][MainNext]_vars

---------------------------------------------------------------------------
(* Claims about the tracker, checked under TrackerSpec *)

(* C1: a call for a host with no stored sample returns exactly (0, 0), and  *)
(* afterwards last_stats holds the call's rx, tx and the time of the call.  *)
C1_FirstCallZeroAndStored ==
    (call.made /\ ~call.had) =>
        /\ ret = <<0, 0>>
        /\ call.host \in DOMAIN last_stats
        /\ last_stats[call.host] =
               [rx |-> call.rx, tx |-> call.tx, time |-> call.at]

(* a first call with non-zero counters, made after the clock has advanced,  *)
(* while the other host already has a sample                                *)
C1_Witness ==
    /\ call.made /\ ~call.had
    /\ call.rx > 0 /\ call.tx > 0 /\ call.at > 0
    /\ Cardinality(DOMAIN last_stats) = 2

(* C2: a call for a host whose sample is less than 60 seconds old returns   *)
(* (0, 0) and leaves the whole tracker as it was, however often repeated.   *)
C2_TooSoonIsNoOp ==
    [][\A h \in Names :
          (/\ call' # call /\ call'.host = h
           /\ h \in DOMAIN last_stats
           /\ now - last_stats[h].time < 60)
          => (ret' = <<0, 0>> /\ last_stats' = last_stats)]_vars

(* a call 59 seconds after the sample, with counters that have moved        *)
C2_Witness ==
    /\ call.made /\ call.had
    /\ call.at - call.last.time = 59
    /\ call.rx # call.last.rx /\ call.tx # call.last.tx
    /\ last_stats[call.host] = call.last
    /\ ret = <<0, 0>>

(* |u - diff / t * interval * 60| < 1, without division *)
WithinOneByte(u, diff, t) ==
    /\ (u - 1) * t < diff * interval * 60
    /\ diff * interval * 60 < (u + 1) * t

---------------------------------------------------------------------------
(* Claims about get_server_stats, checked under CollectSpec *)

(* C5: get_server_stats never raises; when the connection, a command or its *)
(* parsing throws, the result is offline, every metric is 0 and the error   *)
(* description is not empty.                                                *)
C5_FailureIsOfflineZerosAndError ==
    stats # NoStats =>
        /\ TryBlock(resp).raised => stats.status = "offline"
        /\ stats.status = "offline" =>
              /\ stats.cpu = 0 /\ stats.ram = 0 /\ stats.disk = 0
              /\ stats.network_rx = 0 /\ stats.network_tx = 0
              /\ "error" \in DOMAIN stats
              /\ stats.error # ""

(* what C6 expects of a percentage: the number as parsed, 0 otherwise *)
ParsedOrZero(text) ==
    IF Len(text) = 1 /\ text[1].num THEN Round1(text[1].val) ELSE 0

(* C6: with the connection up and every command answering, an empty or      *)
(* malformed CPU, RAM or disk output sets that metric to 0, the others stay *)
(* as parsed and the status is online.                                      *)
C6_ParseFailureDefaultsToZero ==
    (/\ stats # NoStats
     /\ resp \in MetricAnswers
     /\ ~resp.connect_raises /\ resp.fail_at = 0)
    => /\ stats.status = "online"
       /\ stats.cpu = ParsedOrZero(resp.cpu)
       /\ stats.ram = ParsedOrZero(resp.ram)
       /\ stats.disk = ParsedOrZero(resp.disk)

---------------------------------------------------------------------------
(* Claims about the running monitor, checked under Spec and FairSpec *)

(* C4 as amended: a sample is stored for a server exactly when a poll of    *)
(* the interval task has found it online.                                   *)
C4_SampleIffIntervalPollOnline ==
    DOMAIN last_stats = online_polls["interval"]

(* C4 as stated: a sample is stored for a server exactly when a poll of the *)
(* interval task or of the daily task has found it online.                  *)
C4_SampleIffAnyPollOnline ==
    DOMAIN last_stats = online_polls["interval"] \cup online_polls["daily"]

(* one server has a sample; another was found online by the daily task only *)
C4_Witness ==
    /\ DOMAIN last_stats # {}
    /\ \E h \in online_polls["daily"] : h \notin DOMAIN last_stats

(* the names of the first n configured servers, in configuration order *)
FirstNames(n) == [i \in 1..n |-> servers[i].name]

(* C7: in every cycle each configured server is polled exactly once, in     *)
(* configuration order, and gets exactly one section of the report,         *)
(* whatever the other servers answer; no cycle ends before its report is    *)
(* complete and submitted.                                                  *)
C7_EveryServerPolledAndReported ==
    LET n == IF cycle # "none" THEN idx - 1
             ELSE IF delivery # NoDelivery THEN Len(servers) ELSE 0
    IN  /\ polled = FirstNames(n)
        /\ Len(report) = n
        /\ \A i \in 1..n : report[i].name = servers[i].name
        /\ (cycle = "none" /\ delivery = NoDelivery) => pc = "init"

(* a submitted interval report whose first server failed and whose second  *)
(* is online                                                               *)
C7_Witness ==
    /\ cycle = "none" /\ delivery # NoDelivery
    /\ Len(report) = 2
    /\ "status" \in DOMAIN report[1]
    /\ report[1].status = "offline" /\ report[2].status = "online"

(* C8: a failed delivery, of any kind and in either task, never ends the    *)
(* scheduler loop.                                                          *)
C8_DeliveryFailureKeepsLoop ==
    delivery \in {"TelegramError", "Exception"} => pc # "exited"

C10_DailyAtTehranMidnight ==
    cycle = "daily" => TehranTimeOfDay(next_run["daily"]) = 0

---------------------------------------------------------------------------
(* Claims about the interval report's totals, checked under Spec *)

RECURSIVE OnlineSum(_, _)
(* the sum of one usage figure over the online sections of a report *)
OnlineSum(rep, n) ==
    IF n = 0 THEN <<0, 0>>
    ELSE LET rest == OnlineSum(rep, n - 1)
         IN  IF rep[n].status = "online"
             THEN <<rest[1] + rep[n].input, rest[2] + rep[n].output>>
             ELSE rest

IsIntervalReport == \A i \in 1..Len(report) : "status" \in DOMAIN report[i]

(* a step that polls server h *)
Polls(h) ==
    /\ Len(polled') = Len(polled) + 1
    /\ polled'[Len(polled')] = h

(* C11: the totals of the interval report are the sums of the input, the    *)
(* output and the input+output usage of exactly the sections of online      *)
(* hosts; a poll that finds the host offline, or online for the first time, *)
(* leaves the totals as they were.                                          *)
C11_TotalsAreOnlineSums ==
    /\ [](IsIntervalReport =>
            LET sum == OnlineSum(report, Len(report))
            IN  TotalsSection(totals) =
                    [input |-> sum[1], output |-> sum[2],
                     total |-> sum[1] + sum[2]])
    /\ [][\A h \in Names :
             (/\ cycle = "interval" /\ Polls(h)
              /\ \/ stats'.status = "offline"
                 \/ h \notin DOMAIN last_stats)
             => totals' = totals]_vars

(* a finished interval report with an offline host and an online host whose *)
(* usage is not zero                                                        *)
C11_Witness ==
    /\ IsIntervalReport /\ Len(report) = Len(servers)
    /\ cycle = "none"
    /\ report[1].status = "offline"
    /\ report[2].status = "online" /\ report[2].output > 0
    /\ totals = <<report[2].input, report[2].output>>

---------------------------------------------------------------------------
(* Claims about the start of the process, checked under MainSpec *)

(* C12: when the configuration file is missing or malformed, the process    *)
(* never gets past main: the monitor is not created, the scheduling loop is *)
(* not entered, no server is polled and nothing is delivered.               *)
C12_ConfigFailureIsFatal ==
    config # "valid" =>
        /\ pc \in {"main", "exited"}
        /\ cycle = "none" /\ polled = <<>> /\ report = <<>>
        /\ stats = NoStats /\ last_stats = <<>> /\ open_sessions = {}
        /\ delivery = NoDelivery
        /\ next_run = [j \in Jobs |-> 0]

(* the process has ended on a malformed configuration file *)
C12_Witness == config = "malformed" /\ pc = "exited"

---------------------------------------------------------------------------
(* Claims about the stored samples of the running monitor, checked under    *)
(* Spec                                                                     *)

(* the sample that a poll returning st at time t would store *)
SampleOf(st, t) ==
    [rx |-> st.network_rx, tx |-> st.network_tx, time |-> t]

(* C13, as stated: once a sample is stored for a host it exists in every    *)
(* later state, and every later poll of the host that finds it online       *)
(* replaces the sample by that poll's counters and time.                    *)
C13_UpdatedOnEveryOnlinePoll ==
    [][\A h \in Names :
         h \in DOMAIN last_stats =>
            /\ h \in DOMAIN last_stats'
            /\ (Polls(h) /\ stats'.status = "online")
                   => last_stats'[h] = SampleOf(stats', now')]_vars

(* C13, amended: the sample is never deleted; an online poll of the         *)
(* interval task replaces it when at least 60 seconds have passed since the *)
(* stored sample; an earlier one, or a poll of the daily task, leaves it as *)
(* it was.                                                                  *)
C13_UpdatedAfterMinElapsed ==
    [][\A h \in Names :
         h \in DOMAIN last_stats =>
            /\ h \in DOMAIN last_stats'
            /\ (Polls(h) /\ stats'.status = "online")
                   => last_stats'[h] =
                        IF /\ cycle = "interval"
                           /\ now' - last_stats[h].time >= MinElapsed
                        THEN SampleOf(stats', now')
                        ELSE last_stats[h]]_vars

(* the interval task has just polled a host online whose earlier sample it  *)
(* replaced: the usage it reported is not zero                              *)
C13_Witness ==
    /\ cycle = "interval" /\ polled # <<>> /\ Len(report) = Len(polled)
    /\ stats.status = "online"
    /\ polled[Len(polled)] \in DOMAIN last_stats
    /\ last_stats[polled[Len(polled)]] = SampleOf(stats, now)
    /\ report[Len(report)].output > 0

---------------------------------------------------------------------------
(* Claims about the network counters, checked under CollectSpec *)

(* the named interfaces whose command printed both counters *)
Matched(r) == {i \in 1..Len(interfaces) : Len(r.net[i]) >= 2}

(* the counters of the first named interface that matched; failing any, of  *)
(* the first interface after the header lines; failing that, 0 and 0        *)
SelectedCounters(r) ==
    IF Matched(r) # {}
    THEN LET i == CHOOSE k \in Matched(r) : \A n \in Matched(r) : k <= n
         IN  <<r.net[i][1].val, r.net[i][2].val>>
    ELSE IF Len(r.first) >= 3
    THEN <<r.first[2].val, r.first[3].val>>
    ELSE <<0, 0>>

(* C14: a poll that finds the host online reports the counters of the first *)
(* interface of the priority list that printed both; the first interface    *)
(* after the header lines is used only when no named interface matched, not *)
(* when one matched with counters 0; with no data at all both are 0.        *)
C14_FirstMatchingInterface ==
    (stats # NoStats /\ stats.status = "online") =>
        <<stats.network_rx, stats.network_tx>> = SelectedCounters(resp)

---------------------------------------------------------------------------
(* Claims about the update of the sample, checked under TrackerSpec *)

(* C15: after a call for a host whose stored sample is at least 60 seconds  *)
(* old, the stored sample is the call's rx, tx and time, whatever the       *)
(* counters are, lower than the stored ones included.                       *)
C15_SampleReplacedAfterMinElapsed ==
    (call.made /\ call.had /\ call.at - call.last.time >= MinElapsed) =>
        /\ call.host \in DOMAIN last_stats
        /\ last_stats[call.host] =
               [rx |-> call.rx, tx |-> call.tx, time |-> call.at]

(* such a call with both counters lower than the stored ones *)
C15_Witness ==
    /\ call.made /\ call.had /\ call.at - call.last.time >= MinElapsed
    /\ call.rx < call.last.rx /\ call.tx < call.last.tx
    /\ ret[1] < 0 /\ ret[2] < 0

---------------------------------------------------------------------------
(* Claims about the worker loop, checked under Spec *)

(* C16: there is one worker.  While a cycle is in progress the process is   *)
(* inside the call that runs it (the immediate run, or run_pending with     *)
(* that job at the head of its due jobs): the loop does not tick and no     *)
(* other cycle begins; every step taken is the cycle's own poll of its next *)
(* server, so no server is polled by two cycles at once.                    *)
C16_OneCycleAtATime ==
    /\ [](cycle # "none" =>
            /\ pc \in {"immediate", "jobs"}
            /\ pc = "immediate" => cycle = "interval"
            /\ pc = "jobs" => (pending # <<>> /\ Head(pending) = cycle))
    /\ [][(cycle # "none" /\ cycle' # "none") =>
            /\ cycle' = cycle /\ pc' = pc /\ pending' = pending
            /\ idx <= Len(servers) /\ idx' = idx + 1
            /\ polled' = Append(polled, servers[idx].name)]_vars

(* the daily task, run by run_pending, has polled its first server and the  *)
(* clock has moved on since it fell due                                     *)
C16_Witness ==
    /\ cycle = "daily" /\ pc = "jobs" /\ Len(polled) = 1
    /\ now > next_run["daily"]

---------------------------------------------------------------------------
(* Claims about format_bytes, checked under FormatSpec *)

Magnitude(q) == Quantity(IF q.m < 0 THEN 0 - q.m ELSE q.m, q.e)

(* the smallest unit at which the magnitude, divided by 1024 once per unit  *)
(* passed, is below 1024; PB when there is none                             *)
SmallestUnit(q) ==
    LET fits == {k \in 1..Len(units) :
                    Below1024(Quantity(Magnitude(q).m, q.e - (k - 1)))}
    IN  IF fits = {} THEN "PB"
        ELSE units[CHOOSE k \in fits : \A n \in fits : k <= n]

(* C17: for every quantity, negative ones included, the unit format_bytes   *)
(* picks is the smallest of B, KB, MB, GB, TB at which the scaled magnitude *)
(* is below 1024, and PB when there is none (0 in B, 1536 in KB,            *)
(* 1073741824 in GB).                                                       *)
C17_SmallestUnitOfMagnitude ==
    formatted # NoFormat => formatted.unit = SmallestUnit(bytes)

---------------------------------------------------------------------------
(* Claims about the daily report, checked under Spec *)

(* the last section of the report is a section of the daily report *)
LastIsDaily == report # <<>> /\ "cpu_min" \in DOMAIN report[Len(report)]

(* the band reported around reading v (tenths of a percent) with width d    *)
(* (percent)                                                                *)
Band(v, d) == <<IF v - 10 * d > 0 THEN v - 10 * d ELSE 0, v + 10 * d>>

(* C18: the section the daily report gives a server shows, for the CPU, RAM *)
(* and disk readings v of that server's poll, the minimum max(0, v - d) and *)
(* the maximum v + d with d = 10, 15 and 5; no minimum is negative.         *)
C18_DailyBands ==
    LastIsDaily =>
        LET s == report[Len(report)]
        IN  /\ <<s.cpu_min, s.cpu_max>> = Band(stats.cpu, 10)
            /\ <<s.ram_min, s.ram_max>> = Band(stats.ram, 15)
            /\ <<s.disk_min, s.disk_max>> = Band(stats.disk, 5)
            /\ s.cpu_min >= 0 /\ s.ram_min >= 0 /\ s.disk_min >= 0

(* a daily section for a server with CPU 42.3%, RAM 5.0% and disk 70.0%:    *)
(* the RAM minimum is floored at 0                                          *)
C18_Witness ==
    /\ LastIsDaily /\ stats.status = "online"
    /\ stats.cpu = 423 /\ stats.ram = 50 /\ stats.disk = 700
    /\ report[Len(report)].cpu_min = 323 /\ report[Len(report)].cpu_max = 523
    /\ report[Len(report)].ram_min = 0 /\ report[Len(report)].ram_max = 200
    /\ report[Len(report)].disk_min = 650

---------------------------------------------------------------------------
(* Claims about what leaves the tracker alone, checked under Spec *)

(* C19: a poll that finds its server offline leaves last_stats as it was;   *)
(* so does every step of a daily cycle; and whatever a step does to the     *)
(* sample of the server it polls, the samples of the other servers stay as  *)
(* they were.                                                               *)
C19_TrackerFrame ==
    [][/\ (\E h \in Names : Polls(h) /\ stats'.status = "offline")
            => last_stats' = last_stats
       /\ cycle = "daily" => last_stats' = last_stats
       /\ \A h \in Names : \A g \in DOMAIN last_stats \ {h} :
            Polls(h) => /\ g \in DOMAIN last_stats'
                        /\ last_stats'[g] = last_stats[g]
       /\ (\A h \in Names : ~Polls(h)) => last_stats' = last_stats]_vars

(* both servers have a sample, taken at different times and since replaced  *)
(* for one of them, and the last poll found its server offline              *)
C19_Witness ==
    /\ DOMAIN last_stats = Names
    /\ last_stats["alpha"].time # last_stats["beta"].time
    /\ \E h \in Names : last_stats[h].time >= MinElapsed
    /\ polled # <<>> /\ stats.status = "offline"

---------------------------------------------------------------------------
(* Claims about the SSH sessions, checked under CollectSpec *)

(* C20: when get_server_stats has returned, online or offline, no session   *)
(* that the call opened is still open.                                      *)
C20_SessionsClosedOnReturn ==
    stats # NoStats => open_sessions = {}

=============================================================================
